---------------------------- MODULE Spec2Model ----------------------------
(*
  A model of s3_to_sftp.py: the Lambda entry point on_trigger_event, the
  generator s3_files, sftp_filename, transfer_file, archive_file and
  delete_file, together with the two collaborators the code talks to (the S3
  object store and the SFTP server).

  Strings are sequences of one-character strings, so that str.split,
  str.replace and str.format are computed character by character.
*)
EXTENDS Integers, Sequences, FiniteSets, TLC

(* ------------------------------------------------------------------ *)
(* Bounds of the model                                                 *)
(* ------------------------------------------------------------------ *)

\* Longest batch (event['Records']) the trigger delivers.
MaxRecords == 2

\* Number of times the trigger delivers the batch (at-least-once delivery).
MaxRuns == 2

\* Number of calls on the collaborators that a fault is injected into while
\* the process lives.
MaxFaults == 2

\* Longest object key fed to sftp_filename in the filename specification.
MaxKeyLen == 8

(* ------------------------------------------------------------------ *)
(* String literals                                                     *)
(* ------------------------------------------------------------------ *)

\* Python's None; no string equals it (its one element is not a character).
None == <<"None">>

ObjectCreated == <<"O", "b", "j", "e", "c", "t", "C", "r", "e", "a", "t", "e", "d">>

EvPut == <<"O", "b", "j", "e", "c", "t", "C", "r", "e", "a", "t", "e", "d", ":", "P", "u", "t">>

EvRemoved == <<"O", "b", "j", "e", "c", "t", "R", "e", "m", "o", "v", "e", "d", ":", "D", "e", "l", "e", "t", "e">>

\* Malformed event names: no colon, and more than one colon.
EvNoColon == <<"O", "b", "j", "e", "c", "t", "C", "r", "e", "a", "t", "e", "d">>

EvTwoColons == <<"O", "b", "j", "e", "c", "t", "C", "r", "e", "a", "t", "e", "d", ":", "P", "u", "t", ":", "x">>

Suffix000 == <<"_", "0", "0", "0">>

ArchivePrefix == <<"a", "r", "c", "h", "i", "v", "e", "/">>

DotX == <<".", "x">>

DefaultMask == <<"d", "a", "t", "a", "_", "{", "c", "u", "r", "r", "e", "n", "t", "_", "d", "a", "t", "e", "}">>

FullMask == <<"{", "b", "u", "c", "k", "e", "t", "}", "-", "{", "k", "e", "y", "}", "-", "{", "c", "u", "r", "r", "e", "n", "t", "_", "d", "a", "t", "e", "}">>

FieldBucket == <<"b", "u", "c", "k", "e", "t">>

FieldKey == <<"k", "e", "y">>

FieldDate == <<"c", "u", "r", "r", "e", "n", "t", "_", "d", "a", "t", "e">>

\* datetime.date.today().isoformat() on the day of the run.
Today == <<"2", "0", "2", "4", "-", "0", "1", "-", "0", "1">>

(* ------------------------------------------------------------------ *)
(* Python string operations                                            *)
(* ------------------------------------------------------------------ *)

\* s.startswith(p)
StartsWith(s, p) == Len(s) >= Len(p) /\ SubSeq(s, 1, Len(p)) = p

\* s.endswith(p)
EndsWith(s, p) == Len(s) >= Len(p) /\ SubSeq(s, Len(s) - Len(p) + 1, Len(s)) = p

RECURSIVE ReplaceFirst(_, _, _)
\* s.replace(old, new, 1): only the leftmost occurrence is replaced.
ReplaceFirst(s, old, new) ==
    IF Len(s) < Len(old) THEN s
    ELSE IF StartsWith(s, old) THEN new \o SubSeq(s, Len(old) + 1, Len(s))
    ELSE <<Head(s)>> \o ReplaceFirst(Tail(s), old, new)

RECURSIVE Replace(_, _, _)
\* s.replace(old, new) for a non-empty old: every non-overlapping occurrence,
\* scanned left to right; replaced text is not scanned again.
Replace(s, old, new) ==
    IF Len(s) < Len(old) THEN s
    ELSE IF StartsWith(s, old)
         THEN new \o Replace(SubSeq(s, Len(old) + 1, Len(s)), old, new)
    ELSE <<Head(s)>> \o Replace(Tail(s), old, new)

RECURSIVE FindFrom(_, _, _)
\* Index of the first occurrence of character c in s at or after position i,
\* 0 when there is none.
FindFrom(s, c, i) ==
    IF i > Len(s) THEN 0
    ELSE IF s[i] = c THEN i
    ELSE FindFrom(s, c, i + 1)

\* Index of the first occurrence of character c in s, 0 when there is none.
Find(s, c) == FindFrom(s, c, 1)

RECURSIVE Split(_, _)
\* s.split(sep) for a one-character sep: the list of parts.
Split(s, sep) ==
    LET i == Find(s, sep)
    IN  IF i = 0 THEN <<s>>
        ELSE <<SubSeq(s, 1, i - 1)>> \o Split(SubSeq(s, i + 1, Len(s)), sep)

RECURSIVE Format(_, _)
\* mask.format(**kw) for a mask whose replacement fields are all keys of kw:
\* each "{name}" is replaced by kw[name], every other character is copied.
Format(mask, kw) ==
    IF mask = <<>> THEN <<>>
    ELSE IF Head(mask) = "{"
         THEN LET j == Find(mask, "}")
              IN  kw[SubSeq(mask, 2, j - 1)]
                  \o Format(SubSeq(mask, j + 1, Len(mask)), kw)
    ELSE <<Head(mask)>> \o Format(Tail(mask), kw)

\* sftp_filename(file_mask, s3_file); today's date is Today.
sftp_filename(file_mask, s3_file_) ==
    Format(file_mask,
           [n \in {FieldBucket, FieldKey, FieldDate} |->
               IF n = FieldBucket THEN s3_file_.bucket_name
               ELSE IF n = FieldKey THEN Replace(s3_file_.key, Suffix000, <<>>)
               ELSE Today])


(* ------------------------------------------------------------------ *)
(* Inputs: the process environment, the batch, the faults              *)
(* ------------------------------------------------------------------ *)

HostValue == <<"h">>

UserValue == <<"u">>

PasswordValue == <<"p", "w">>

\* SSH_PRIVATE_KEY, 'bucket:key'.
PrivateKeyValue == <<"k", "b", ":", "i", "d">>

DirValue == <<"u", "p">>

\* One environment: the variables named in Present, each with its value,
\* and SSH_FILENAME = mask unless mask is None.
Environ(Present, mask) ==
    [n \in Present \cup (IF mask = None THEN {} ELSE {"SSH_FILENAME"}) |->
        CASE n = "SSH_HOST" -> HostValue
          [] n = "SSH_USERNAME" -> UserValue
          [] n = "SSH_PASSWORD" -> PasswordValue
          [] n = "SSH_PRIVATE_KEY" -> PrivateKeyValue
          [] n = "SSH_DIR" -> DirValue
          [] OTHER -> mask]

\* The environments the process is started in. Host and username present:
\* every combination of password and private key with nothing else set, and
\* the password with the directory, with the mask, and with both. And one
\* environment each without the host and without the username.
Environs ==
    { Environ({"SSH_HOST", "SSH_USERNAME"} \cup Cred, None) :
          Cred \in SUBSET {"SSH_PASSWORD", "SSH_PRIVATE_KEY"} }
    \cup { Environ({"SSH_HOST", "SSH_USERNAME", "SSH_PASSWORD", "SSH_DIR"}, mask) :
              mask \in {None, FullMask} }
    \cup { Environ({"SSH_HOST", "SSH_USERNAME", "SSH_PASSWORD"}, FullMask),
           Environ({"SSH_USERNAME", "SSH_PASSWORD"}, None),
           Environ({"SSH_HOST", "SSH_PASSWORD"}, None) }

Buckets == { <<"i", "n">> }

Keys == { <<"f">>, <<"f", "_", "0", "0", "0">> }

EventNames == { EvPut, EvRemoved, EvNoColon, EvTwoColons }

\* A record of event['Records']: eventName, s3.bucket.name, s3.object.key.
RecordChoices ==
    [eventName : EventNames, bucket_name : Buckets, key : Keys]

Batches == UNION { [1..n -> RecordChoices] : n \in 0..MaxRecords }

\* The body of the object the store holds under a key when the process
\* starts: one character for the one-character key, two for the longer key.
InitialBody(key) == IF Len(key) <= 2 THEN key ELSE SubSeq(key, 1, 2)

\* Exceptions of the object-store client. ClientError (an error response of
\* the service, such as a missing key or a denied request) is not a
\* BotoCoreError.
S3Faults ==
    { [cls |-> "BotoCoreError", msg |-> <<"E", "b">>],
      [cls |-> "ClientError", msg |-> <<"E", "c">>] }

\* Exceptions of the SFTP client (paramiko): IOError, SSHException.
SftpFaults == { [cls |-> "IOError", msg |-> <<"E", "s">>] }

\* What a write that stopped early can leave of a body: a proper prefix.
ProperPrefixes(body) == { SubSeq(body, 1, n) : n \in 0..(Len(body) - 1) }

(* ------------------------------------------------------------------ *)
(* State                                                               *)
(* ------------------------------------------------------------------ *)

VARIABLES
    os_environ,  \* os.environ of the process
    event,       \* event['Records'] of the batch the trigger delivers
    s3,          \* the object store: <<bucket, key>> -> body
    remote,      \* the files of the SFTP server: name -> content
    pc,          \* where the process is
    runs,        \* invocations of on_trigger_event started so far
    transport,   \* "none", "connected", "open" or "closed"
    cwd,         \* working directory of sftp_client
    idx,         \* number of records s3_files has consumed
    s3_file,     \* loop variable of on_trigger_event
    filename,    \* local of on_trigger_event
    contents,    \* local of on_trigger_event
    calls,       \* the calls made on the collaborators and the warnings
                 \* logged during this invocation, in order
    exc,         \* the exception that left on_trigger_event, if any
    faults       \* number of faults injected so far

vars == <<os_environ, event, s3, remote, pc, runs, transport, cwd, idx,
          s3_file, filename, contents, calls, exc, faults>>

\* A collaborator raises on this call.
Inject == faults < MaxFaults /\ faults' = faults + 1

NoFile == [bucket_name |-> <<>>, key |-> <<>>]

NoExc == [cls |-> "", at |-> ""]

\* One entry of calls: the operation, the record it was made for (0 during
\* setup), the bucket and the key or file name it names, the Body of a put
\* (the text of the exception for a download that raised), and "ok" or the
\* class of the exception the call raised.
Call(op, rec, bucket, name, body, res) ==
    [op |-> op, rec |-> rec, bucket |-> bucket, name |-> name,
     body |-> body, res |-> res]

\* os.getenv(name, default)
getenv(name, default) ==
    IF name \in DOMAIN os_environ THEN os_environ[name] ELSE default

\* Python truthiness of an optional string.
Truthy(v) == v # None /\ v # <<>>

SSH_PASSWORD == getenv("SSH_PASSWORD", None)

SSH_PRIVATE_KEY == getenv("SSH_PRIVATE_KEY", None)

SSH_DIR == getenv("SSH_DIR", None)

SSH_FILENAME == getenv("SSH_FILENAME", DefaultMask)

\* An assertion that wants the password or the private key, not both.
HasExactlyOneCredential == Truthy(SSH_PASSWORD) # Truthy(SSH_PRIVATE_KEY)

\* The assertion of line 43.
HasCredentials == Truthy(SSH_PASSWORD) \/ Truthy(SSH_PRIVATE_KEY)

\* f with x mapped to v (x added to the domain when it is new).
Put(f, x, v) == [y \in DOMAIN f \cup {x} |-> IF y = x THEN v ELSE f[y]]

\* f without x.
Remove(f, x) == [y \in DOMAIN f \ {x} |-> f[y]]

Init ==
    /\ os_environ \in Environs
    /\ event \in Batches
    /\ s3 = [o \in Buckets \X Keys |-> InitialBody(o[2])]
    /\ remote = <<>>
    /\ pc = "import"
    /\ runs = 0
    /\ transport = "none"
    /\ cwd = <<>>
    /\ idx = 0
    /\ s3_file = NoFile
    /\ filename = <<>>
    /\ contents = <<>>
    /\ calls = <<>>
    /\ exc = NoExc
    /\ faults = 0

(* ------------------------------------------------------------------ *)
(* Module load and invocation                                          *)
(* ------------------------------------------------------------------ *)

\* Lines 36-48: os.environ[...] raises KeyError for a missing host or
\* username, the assertion fails without a password and a private key.
ModuleLoad ==
    /\ pc = "import"
    /\ pc' = IF /\ "SSH_HOST" \in DOMAIN os_environ
                /\ "SSH_USERNAME" \in DOMAIN os_environ
                /\ HasCredentials
             THEN "loaded" ELSE "import_failed"
    /\ UNCHANGED <<os_environ, event, s3, remote, runs, transport, cwd, idx,
                   s3_file, filename, contents, calls, exc, faults>>

\* The runtime calls on_trigger_event(event, context): the first delivery of
\* the batch, or a redelivery after the previous invocation ended.
Invoke ==
    /\ pc \in {"loaded", "returned", "raised"}
    /\ runs < MaxRuns
    /\ runs' = runs + 1
    /\ pc' = "key"
    /\ transport' = "none"
    /\ cwd' = <<>>
    /\ idx' = 0
    /\ s3_file' = NoFile
    /\ filename' = <<>>
    /\ contents' = <<>>
    /\ calls' = <<>>
    /\ exc' = NoExc
    /\ UNCHANGED <<os_environ, event, s3, remote, faults>>

\* A setup fault that is swallowed: the loop over the records starts anyway.
RaiseOutsideSwallowed(f, at) ==
    /\ pc' = "iterate"
    /\ UNCHANGED exc

\* An exception leaves on_trigger_event before the with statement is entered:
\* nothing closes the transport.
RaiseOutside(f, at) ==
    /\ pc' = "raised"
    /\ exc' = [cls |-> f.cls, at |-> at]

\* A with statement that leaves the transport as it is.
ExitWithLeavesOpen(log) ==
    /\ UNCHANGED transport
    /\ calls' = log

\* Transport.__exit__: the with statement of line 97 closes the transport.
ExitWith(log) ==
    /\ transport' = "closed"
    /\ calls' = Append(log, Call("close", 0, <<>>, <<>>, <<>>, "ok"))

\* An exception leaves the body of the with statement.
RaiseInside(f, at, log) ==
    /\ pc' = "raised"
    /\ exc' = [cls |-> f.cls, at |-> at]
    /\ ExitWith(log)

(* ------------------------------------------------------------------ *)
(* on_trigger_event: session setup (lines 77-95)                       *)
(* ------------------------------------------------------------------ *)

\* Lines 77-80 and get_private_key: without SSH_PRIVATE_KEY key_obj is None;
\* with it the key is read from the store and parsed, and a fault of either
\* step leaves on_trigger_event.
get_private_key ==
    /\ pc = "key"
    /\ \/ /\ ~Truthy(SSH_PRIVATE_KEY)
          /\ pc' = "connect"
          /\ UNCHANGED <<calls, exc, faults>>
       \/ /\ Truthy(SSH_PRIVATE_KEY)
          /\ Len(Split(SSH_PRIVATE_KEY, ":")) = 2
          /\ \/ /\ pc' = "connect"
                /\ calls' = Append(calls, Call("get_key", 0,
                                Split(SSH_PRIVATE_KEY, ":")[1],
                                Split(SSH_PRIVATE_KEY, ":")[2], <<>>, "ok"))
                /\ UNCHANGED <<exc, faults>>
             \/ \E f \in S3Faults \cup {[cls |-> "SSHException", msg |-> <<"E", "k">>]} :
                /\ calls' = Append(calls, Call("get_key", 0,
                                Split(SSH_PRIVATE_KEY, ":")[1],
                                Split(SSH_PRIVATE_KEY, ":")[2], <<>>, f.cls))
                /\ RaiseOutside(f, "get_private_key")
                /\ Inject
    /\ UNCHANGED <<os_environ, event, s3, remote, runs, transport, cwd, idx,
                   s3_file, filename, contents>>

\* Lines 86-92 and connect_to_sftp. The socket is opened by the Transport
\* constructor (line 117), the session is authenticated by transport.connect
\* (line 118) and the SFTP channel is opened by from_transport (line 119); a
\* fault of any of the three leaves on_trigger_event.
connect_to_sftp ==
    /\ pc = "connect"
    /\ \/ /\ transport' = "open"
          /\ pc' = "chdir"
          /\ calls' = Append(calls, Call("connect", 0, <<>>, <<>>, <<>>, "ok"))
          /\ UNCHANGED <<exc, faults>>
       \/ \E f \in SftpFaults, reached \in {"none", "connected", "open"} :
          /\ transport' = reached
          /\ calls' = Append(calls, Call("connect", 0, <<>>, <<>>, <<>>, f.cls))
          /\ RaiseOutside(f, "connect_to_sftp")
          /\ Inject
    /\ UNCHANGED <<os_environ, event, s3, remote, runs, cwd, idx, s3_file,
                   filename, contents>>

\* Lines 93-95: sftp_client.chdir(SSH_DIR) when SSH_DIR is set, before the
\* with statement; then line 97 enters it.
chdir ==
    /\ pc = "chdir"
    /\ \/ /\ ~Truthy(SSH_DIR)
          /\ pc' = "iterate"
          /\ UNCHANGED <<cwd, calls, exc, faults>>
       \/ /\ Truthy(SSH_DIR)
          /\ \/ /\ cwd' = SSH_DIR
                /\ pc' = "iterate"
                /\ calls' = Append(calls, Call("chdir", 0, <<>>, SSH_DIR, <<>>, "ok"))
                /\ UNCHANGED <<exc, faults>>
             \/ \E f \in SftpFaults :
                /\ calls' = Append(calls, Call("chdir", 0, <<>>, SSH_DIR, <<>>, f.cls))
                /\ RaiseOutside(f, "chdir")
                /\ Inject
                /\ UNCHANGED cwd
    /\ UNCHANGED <<os_environ, event, s3, remote, runs, transport, idx, s3_file,
                   filename, contents>>

(* ------------------------------------------------------------------ *)
(* s3_files and the loop of on_trigger_event (lines 97-112, 155-163)   *)
(* ------------------------------------------------------------------ *)

\* A test that lets every category starting with "Object" through.
IsCreatedPrefix(event_category) ==
    StartsWith(event_category, <<"O", "b", "j", "e", "c", "t">>)

\* Line 159: the test on the event category.
IsCreated(event_category) == event_category = ObjectCreated

\* An except clause that catches every exception.
CatchesException(f) == TRUE

\* Lines 105, 207 and 232: the exceptions the except clauses catch.
IsBotoCoreError(f) == f.cls = "BotoCoreError"

\* A failed transfer that keeps the name of a successful one.
FailedNameUnchanged(name) == name

\* Line 108: the name the archive marker gets after a failed transfer.
FailedName(name) == name \o DotX

\* Line 229: the key of the archive marker.
ArchiveKey(name) == ArchivePrefix \o name

\* An unpacking that only needs a first part.
UnpacksLoose(parts) == Len(parts) >= 1

\* Line 158: the assignment to (event_category, event_subcat) unpacks the
\* parts of the event name; it raises ValueError unless there are two.
Unpacks(parts) == Len(parts) = 2

\* A generator that is run to its end before the loop starts looks at every
\* record that is left.
NextRecordsEager(i) == (i + 1)..Len(event)

\* Line 155: the positions of event['Records'] the generator looks at when
\* it is resumed after having consumed i records: the generator is lazy, it
\* takes one record at a time.
NextRecords(i) == { i + 1 }

\* A loop body that deletes the source before it writes the marker.
StepAfterDeleteFirst(step) ==
    CASE step = "transfer" -> "download"
      [] step = "download" -> "delete"
      [] step = "delete" -> "archive"
      [] step = "archive" -> "iterate"

\* Lines 102-112: the order of the statements of the loop body. transfer_file
\* opens the remote file and then reads the object (lines 188-189), then
\* come archive_file (line 110) and delete_file (line 112), and the for
\* statement resumes the generator.
StepAfter(step) ==
    CASE step = "transfer" -> "download"
      [] step = "download" -> "archive"
      [] step = "archive" -> "delete"
      [] step = "delete" -> "iterate"

\* A transfer that removes the remote file when the read did not finish.
RemoteAfterCleanup(name, o) ==
    IF o.f.cls = "ok" THEN Put(remote, name, o.written) ELSE Remove(remote, name)

\* Lines 188-189: the remote files when download_fileobj has ended with
\* outcome o. The with statement closes the remote file whether or not the
\* read raised, and nothing removes it: it holds what was written.
RemoteAfter(name, o) == Put(remote, name, o.written)

\* The generator s3_files is resumed by the for statement of line 98. It
\* takes the next record, splits its event name at ':' into exactly two parts
\* (anything else raises ValueError out of the generator and the loop), and
\* yields the object of a created event or logs a warning and goes on. When
\* the records are used up the loop ends and the with statement closes the
\* transport. After a yield, lines 99-101 set filename and contents.
s3_files ==
    /\ pc = "iterate"
    /\ IF idx + 1 > Len(event)
       THEN /\ pc' = "returned"
            /\ ExitWith(calls)
            /\ UNCHANGED <<idx, s3_file, filename, contents, exc>>
       ELSE LET record == event[idx + 1]
                parts == Split(record.eventName, ":")
            IN  /\ idx' = idx + 1
                /\ IF \E j \in NextRecords(idx) :
                          ~Unpacks(Split(event[j].eventName, ":"))
                   THEN /\ RaiseInside([cls |-> "ValueError"], "s3_files", calls)
                        /\ UNCHANGED <<s3_file, filename, contents>>
                   ELSE IF IsCreated(parts[1])
                   THEN /\ s3_file' = [bucket_name |-> record.bucket_name,
                                       key |-> record.key]
                        /\ filename' = sftp_filename(SSH_FILENAME, s3_file')
                        /\ contents' = <<>>
                        /\ pc' = "transfer"
                        /\ UNCHANGED <<transport, calls, exc>>
                   ELSE /\ calls' = Append(calls, Call("warning", idx + 1,
                                       record.bucket_name, record.key, <<>>, "ok"))
                        /\ UNCHANGED <<pc, transport, s3_file, filename,
                                       contents, exc>>
    /\ UNCHANGED <<os_environ, event, s3, remote, runs, cwd, faults>>

\* transfer_file, line 188: sftp_client.file(filename, 'w') creates or
\* truncates the remote file; a fault of the SFTP client is not caught by
\* line 105 and leaves the loop.
transfer_file_open ==
    /\ pc = "transfer"
    /\ \/ /\ remote' = Put(remote, filename, <<>>)
          /\ calls' = Append(calls, Call("file", idx, <<>>, filename, <<>>, "ok"))
          /\ pc' = StepAfter("transfer")
          /\ UNCHANGED <<transport, exc, faults>>
       \/ \E f \in SftpFaults :
          /\ RaiseInside(f, "transfer_file",
                 Append(calls, Call("file", idx, <<>>, filename, <<>>, f.cls)))
          /\ Inject
          /\ UNCHANGED remote
    /\ UNCHANGED <<os_environ, event, s3, runs, cwd, idx, s3_file, filename,
                   contents>>

\* The outcomes of s3_file.download_fileobj(Fileobj=sftp_file): the body
\* written in full, or a fault of the store client or of the SFTP write with
\* a proper prefix of the body written. An object that is not in the store
\* cannot be read: the store client raises and nothing is written (the
\* reply of the store, not an injected fault).
DownloadOutcomes ==
    LET obj == <<s3_file.bucket_name, s3_file.key>> IN
    IF obj \in DOMAIN s3
    THEN { [f |-> [cls |-> "ok", msg |-> <<>>], written |-> s3[obj]] }
         \cup { [f |-> f, written |-> w] :
                    f \in S3Faults \cup SftpFaults, w \in ProperPrefixes(s3[obj]) }
    ELSE { [f |-> f, written |-> <<>>] : f \in S3Faults }

\* transfer_file, line 189, and lines 105-108 of on_trigger_event: a
\* BotoCoreError is caught, its text becomes the contents of the marker and
\* the marker's name gets the suffix; any other exception leaves the loop.
transfer_file_download ==
    /\ pc = "download"
    /\ \E o \in DownloadOutcomes :
       /\ remote' = RemoteAfter(filename, o)
       /\ IF o.f.cls # "ok" /\ <<s3_file.bucket_name, s3_file.key>> \in DOMAIN s3
          THEN Inject ELSE UNCHANGED faults
       /\ IF o.f.cls = "ok"
          THEN /\ calls' = Append(calls, Call("download", idx,
                               s3_file.bucket_name, s3_file.key, <<>>, "ok"))
               /\ pc' = StepAfter("download")
               /\ UNCHANGED <<filename, contents, transport, exc>>
          ELSE IF IsBotoCoreError(o.f)
          THEN /\ calls' = Append(calls, Call("download", idx,
                               s3_file.bucket_name, s3_file.key, o.f.msg, o.f.cls))
               /\ contents' = o.f.msg
               /\ filename' = FailedName(filename)
               /\ pc' = StepAfter("download")
               /\ UNCHANGED <<transport, exc>>
          ELSE /\ RaiseInside(o.f, "transfer_file",
                      Append(calls, Call("download", idx,
                               s3_file.bucket_name, s3_file.key, o.f.msg, o.f.cls)))
               /\ UNCHANGED <<filename, contents>>
    /\ UNCHANGED <<os_environ, event, s3, runs, cwd, idx, s3_file>>

\* Lines 109-110 and archive_file: put the marker in the bucket of the
\* source; a BotoCoreError is caught and logged, any other exception leaves
\* the loop.
archive_file ==
    /\ pc = "archive"
    /\ \/ /\ s3' = Put(s3, <<s3_file.bucket_name, ArchiveKey(filename)>>, contents)
          /\ calls' = Append(calls, Call("put", idx, s3_file.bucket_name,
                               ArchiveKey(filename), contents, "ok"))
          /\ pc' = StepAfter("archive")
          /\ UNCHANGED <<transport, exc, faults>>
       \/ \E f \in S3Faults :
          /\ UNCHANGED s3
          /\ Inject
          /\ IF IsBotoCoreError(f)
             THEN /\ calls' = Append(calls, Call("put", idx, s3_file.bucket_name,
                                  ArchiveKey(filename), contents, f.cls))
                  /\ pc' = StepAfter("archive")
                  /\ UNCHANGED <<transport, exc>>
             ELSE RaiseInside(f, "archive_file",
                      Append(calls, Call("put", idx, s3_file.bucket_name,
                                  ArchiveKey(filename), contents, f.cls)))
    /\ UNCHANGED <<os_environ, event, remote, runs, cwd, idx, s3_file,
                   filename, contents>>

\* Lines 111-112 and delete_file: delete the source object; a BotoCoreError
\* is caught and logged, any other exception leaves the loop. Deleting an
\* object that is not there succeeds.
delete_file ==
    /\ pc = "delete"
    /\ \/ /\ s3' = Remove(s3, <<s3_file.bucket_name, s3_file.key>>)
          /\ calls' = Append(calls, Call("delete", idx, s3_file.bucket_name,
                               s3_file.key, <<>>, "ok"))
          /\ pc' = StepAfter("delete")
          /\ UNCHANGED <<transport, exc, faults>>
       \/ \E f \in S3Faults :
          /\ UNCHANGED s3
          /\ Inject
          /\ IF IsBotoCoreError(f)
             THEN /\ calls' = Append(calls, Call("delete", idx,
                                  s3_file.bucket_name, s3_file.key, <<>>, f.cls))
                  /\ pc' = StepAfter("delete")
                  /\ UNCHANGED <<transport, exc>>
             ELSE RaiseInside(f, "delete_file",
                      Append(calls, Call("delete", idx, s3_file.bucket_name,
                                  s3_file.key, <<>>, f.cls)))
    /\ UNCHANGED <<os_environ, event, remote, runs, cwd, idx, s3_file,
                   filename, contents>>

Next ==
    \/ ModuleLoad
    \/ Invoke
    \/ get_private_key
    \/ connect_to_sftp
    \/ chdir
    \/ s3_files
    \/ transfer_file_open
    \/ transfer_file_download
    \/ archive_file
    \/ delete_file

Spec == Init /\ [][Next]_vars

(* ------------------------------------------------------------------ *)
(* Reading the state                                                   *)
(* ------------------------------------------------------------------ *)

\* on_trigger_event has returned or raised.
Ended == pc \in {"returned", "raised"}

SetupStages == {"get_private_key", "connect_to_sftp", "chdir"}

ObjectStages == {"transfer_file", "archive_file", "delete_file"}

\* The parts of each event name of the model, split at ':'.
EventParts == [n \in EventNames |-> Split(n, ":")]

\* The event name of record i is one category:subcategory pair.
WellFormed(i) == Len(EventParts[event[i].eventName]) = 2

Category(i) == EventParts[event[i].eventName][1]

\* Record i has been yielded by s3_files during this invocation.
Accepted(i) ==
    /\ i \in 1..idx
    /\ LET parts == EventParts[event[i].eventName]
       IN  Len(parts) = 2 /\ parts[1] = ObjectCreated

\* Record i is well formed and is not a created event.
Skippable(i) ==
    /\ i \in 1..Len(event)
    /\ LET parts == EventParts[event[i].eventName]
       IN  Len(parts) = 2 /\ parts[1] # ObjectCreated

\* The positions in calls of the calls op made for record i.
CallsFor(op, i) == { k \in DOMAIN calls : calls[k].op = op /\ calls[k].rec = i }

N(op, i) == Cardinality(CallsFor(op, i))

\* The name sftp_filename gives each object of the model under each mask.
ResolvedNames ==
    [mask \in {DefaultMask, FullMask}, b \in Buckets, k \in Keys |->
        sftp_filename(mask, [bucket_name |-> b, key |-> k])]

\* The name sftp_filename gives record i.
Resolved(i) ==
    ResolvedNames[SSH_FILENAME, event[i].bucket_name, event[i].key]

(* ------------------------------------------------------------------ *)
(* C1                                                                  *)
(* ------------------------------------------------------------------ *)

\* C1: when an invocation has ended, every record s3_files accepted during it
\* has had exactly one archive marker write and exactly one deletion attempt,
\* whatever happened to its transfer.
C1_OneArchiveOneDeletePerAccepted ==
    Ended =>
        \A i \in 1..Len(event) :
            Accepted(i) => N("put", i) = 1 /\ N("delete", i) = 1

(* ------------------------------------------------------------------ *)
(* C2                                                                  *)
(* ------------------------------------------------------------------ *)

\* C2: a source object is deleted only after its transfer succeeded: every
\* deletion call follows a successful download of the same record.
C2_DeleteOnlyAfterSuccessfulTransfer ==
    \A k \in DOMAIN calls :
        calls[k].op = "delete" =>
            \E j \in 1..(k - 1) :
                /\ calls[j].op = "download"
                /\ calls[j].rec = calls[k].rec
                /\ calls[j].res = "ok"

(* ------------------------------------------------------------------ *)
(* C4                                                                  *)
(* ------------------------------------------------------------------ *)

\* C4: once connect_to_sftp has returned the transport, every way the
\* invocation ends (a return or an exception, the change of directory
\* included) leaves the transport closed.
C4_TransportClosedOnEveryExit ==
    (Ended /\ \E k \in DOMAIN calls :
                  calls[k].op = "connect" /\ calls[k].res = "ok")
        => transport = "closed"

(* ------------------------------------------------------------------ *)
(* C3                                                                  *)
(* ------------------------------------------------------------------ *)

\* C3: a well-formed record whose category is not exactly "ObjectCreated" has
\* no remote file opened, no download, no archive marker write and no
\* deletion; no call names its (bucket, key) unless an accepted record of the
\* batch names the same object; it has exactly one warning once s3_files has
\* reached it and none before; skipping it does not end the loop, and an
\* invocation that returns has gone through every record of the batch.
C3_SkippedRecordUntouched ==
    /\ \A i \in 1..Len(event) :
          Skippable(i) =>
              /\ \A k \in DOMAIN calls :
                    calls[k].rec = i =>
                        calls[k].op \notin {"file", "download", "put", "delete"}
              /\ N("warning", i) = (IF i <= idx THEN 1 ELSE 0)
              /\ idx = i => pc \in {"iterate", "returned"}
              /\ \A k \in DOMAIN calls :
                    (/\ calls[k].op \in {"download", "delete"}
                     /\ calls[k].bucket = event[i].bucket_name
                     /\ calls[k].name = event[i].key)
                        => /\ Accepted(calls[k].rec)
                           /\ event[calls[k].rec].key = event[i].key
                           /\ event[calls[k].rec].bucket_name = event[i].bucket_name
    /\ pc = "returned" => idx = Len(event)

\* A returned invocation whose first record was skipped with one warning and
\* whose second record was accepted and went as far as its deletion.
C3_Witness ==
    /\ pc = "returned"
    /\ Len(event) = 2
    /\ Skippable(1)
    /\ N("warning", 1) = 1
    /\ Accepted(2)
    /\ N("delete", 2) = 1

(* ------------------------------------------------------------------ *)
(* C5                                                                  *)
(* ------------------------------------------------------------------ *)

\* The download call made for record i (there is one when a put was made).
DownloadOf(i) == CHOOSE d \in CallsFor("download", i) : TRUE

\* The put call made for record i.
PutOf(i) == CHOOSE k \in CallsFor("put", i) : TRUE

RaisedOnObjectDeletedBefore ==
    /\ pc = "raised"
    /\ exc.at \in {"transfer_file", "delete_file"}
    /\ exc.cls \in {"BotoCoreError", "ClientError"}
    /\ <<s3_file.bucket_name, s3_file.key>> \notin DOMAIN s3
    /\ \A k \in DOMAIN calls :
          ~(/\ calls[k].op = "delete"
            /\ calls[k].res = "ok"
            /\ calls[k].bucket = s3_file.bucket_name
            /\ calls[k].name = s3_file.key)

\* C6: a second delivery of a batch that names an object the first run
\* deleted does not crash: the fault of reading or deleting the missing
\* object never leaves on_trigger_event.
C6_RerunOfDeletedObjectReturns == runs >= 2 => ~RaisedOnObjectDeletedBefore

(* ------------------------------------------------------------------ *)
(* C7                                                                  *)
(* ------------------------------------------------------------------ *)

\* C7: no fault of the transfer, the archival or the deletion of an object
\* leaves on_trigger_event; an invocation that raises raised in session setup
\* (or on a malformed record).
C7_ObjectFaultsNeverSurface == pc = "raised" => exc.at \notin ObjectStages

(* ------------------------------------------------------------------ *)
(* C8                                                                  *)
(* ------------------------------------------------------------------ *)

\* C8: when a step of session setup (reading or parsing the private key,
\* connecting and authenticating, changing directory) raised, the invocation
\* ended there: it raised in setup, the failed call is the last call made,
\* s3_files consumed no record, and no remote file was opened, no object
\* read, no marker written, no object deleted.
C8_SetupFaultTouchesNoRecord ==
    (\E k \in DOMAIN calls :
        calls[k].op \in {"get_key", "connect", "chdir"} /\ calls[k].res # "ok")
    => /\ pc = "raised"
       /\ exc.at \in SetupStages
       /\ idx = 0
       /\ calls[Len(calls)].op \in {"get_key", "connect", "chdir"}
       /\ calls[Len(calls)].res # "ok"
       /\ \A k \in DOMAIN calls :
             calls[k].op \notin {"file", "download", "put", "delete", "warning"}

\* The change of directory raised for a batch whose first record is a created
\* event.
C8_Witness ==
    /\ pc = "raised"
    /\ exc.at = "chdir"
    /\ Len(event) >= 1
    /\ WellFormed(1)
    /\ Category(1) = ObjectCreated

(* ------------------------------------------------------------------ *)
(* C9                                                                  *)
(* ------------------------------------------------------------------ *)

\* C9: when the archive marker write of an accepted record fails, the
\* deletion of its source object is still attempted: the fault does not leave
\* on_trigger_event, and the deletion call follows.
C9_ArchiveFaultDoesNotStopDeletion ==
    \A i \in 1..idx :
        (N("put", i) = 1 /\ calls[PutOf(i)].res # "ok") =>
            /\ ~(pc = "raised" /\ exc.at = "archive_file")
            /\ (pc = "delete" /\ idx = i) \/ N("delete", i) = 1

(* ------------------------------------------------------------------ *)
(* C11                                                                 *)
(* ------------------------------------------------------------------ *)

\* The environment variable is set to a non-empty value.
Supplied(name) == name \in DOMAIN os_environ /\ os_environ[name] # <<>>

\* The module has been loaded, or its load has failed.
Started == pc # "import"

\* Nothing has been called: no invocation, no call on the store or on the
\* SFTP server, the store and the server as they were.
NothingCalled ==
    /\ runs = 0
    /\ calls = <<>>
    /\ transport = "none"
    /\ remote = <<>>
    /\ s3 = [o \in Buckets \X Keys |-> InitialBody(o[2])]

\* C11 as amended: startup fails when neither a password nor a private-key
\* reference is supplied (or the host or the username is missing) and
\* succeeds when at least one of the two is supplied, both included; when it
\* fails no invocation starts and no object-store or transfer call is made.
C11_StartupNeedsAtLeastOneCredential ==
    /\ Started =>
          (pc = "import_failed" <=>
              ~(/\ Supplied("SSH_HOST")
                /\ Supplied("SSH_USERNAME")
                /\ Supplied("SSH_PASSWORD") \/ Supplied("SSH_PRIVATE_KEY")))
    /\ pc = "import_failed" => NothingCalled

\* The process started with both a password and a private-key reference and
\* an invocation connected with them.
C11_Witness ==
    /\ Supplied("SSH_PASSWORD")
    /\ Supplied("SSH_PRIVATE_KEY")
    /\ \E k \in DOMAIN calls : calls[k].op = "connect" /\ calls[k].res = "ok"

\* C11 as stated: startup fails when neither or both of the password and
\* the private-key reference are supplied and succeeds only with exactly one
\* of them; when it fails nothing has been called.
C11_StartupNeedsExactlyOneCredential ==
    /\ Started =>
          (pc = "import_failed" <=>
              ~(/\ Supplied("SSH_HOST")
                /\ Supplied("SSH_USERNAME")
                /\ Supplied("SSH_PASSWORD") # Supplied("SSH_PRIVATE_KEY")))
    /\ pc = "import_failed" => NothingCalled

(* ------------------------------------------------------------------ *)
(* C12                                                                 *)
(* ------------------------------------------------------------------ *)

\* The calls made for an accepted record.
ObjectOps == {"file", "download", "put", "delete"}

\* The place of a call in the chain of a record: the transfer (open the
\* remote file, read the object), the marker write, the deletion.
Rank(op) ==
    CASE op = "file" -> 1
      [] op = "download" -> 2
      [] op = "put" -> 3
      [] op = "delete" -> 4

\* C12: within one invocation every call of the chain is made for an
\* accepted record and names that record's object; the calls of one record
\* come in the order transfer, marker write, deletion, each step after the
\* one before it and none of them twice; a call for a later record of the
\* batch comes only after the deletion attempt of every earlier record that
\* has calls, and no call for an earlier record comes after a call for a
\* later one; and no accepted record that s3_files has gone past was left
\* out.
C12_StrictOrderNoRetry ==
    /\ \A k \in DOMAIN calls :
          calls[k].op \in ObjectOps =>
              LET c == calls[k]
              IN  /\ Accepted(c.rec)
                  /\ c.op = "file" => c.name = Resolved(c.rec)
                  /\ c.op \in {"download", "delete"} =>
                        /\ c.bucket = event[c.rec].bucket_name
                        /\ c.name = event[c.rec].key
                  /\ Rank(c.op) > 1 =>
                        /\ calls[k - 1].rec = c.rec
                        /\ calls[k - 1].op \in ObjectOps
                        /\ Rank(calls[k - 1].op) = Rank(c.op) - 1
                  /\ \A j \in 1..(k - 1) :
                        calls[j].op \in ObjectOps =>
                            \/ /\ calls[j].rec = c.rec
                               /\ Rank(calls[j].op) < Rank(c.op)
                            \/ /\ calls[j].rec < c.rec
                               /\ \E d \in j..(k - 1) :
                                     /\ calls[d].op = "delete"
                                     /\ calls[d].rec = calls[j].rec
    /\ \A i \in 1..(idx - 1) :
          Accepted(i) =>
              \E k \in DOMAIN calls : calls[k].op = "delete" /\ calls[k].rec = i

\* A returned invocation of a batch of two accepted records, each with its
\* transfer, its marker write and its deletion.
C12_Witness ==
    /\ pc = "returned"
    /\ Len(event) = 2
    /\ Accepted(1)
    /\ Accepted(2)
    /\ \A i \in 1..2 : \A op \in ObjectOps : N(op, i) = 1

(* ------------------------------------------------------------------ *)
(* C13                                                                 *)
(* ------------------------------------------------------------------ *)

C14_MalformedRecordIsHardFailure ==
    \A i \in 1..Len(event) :
        ~WellFormed(i) =>
            /\ idx <= i
            /\ idx = i =>
                  /\ pc = "raised"
                  /\ exc = [cls |-> "ValueError", at |-> "s3_files"]
                  /\ transport = "closed"
            /\ pc # "returned"
            /\ \A k \in DOMAIN calls :
                  calls[k].op \in ObjectOps => calls[k].rec < i

\* The first record of a batch is malformed and the second is a created
\* event: the invocation raised at the first record.
C14_Witness ==
    /\ pc = "raised"
    /\ exc.at = "s3_files"
    /\ Len(event) = 2
    /\ idx = 1
    /\ ~WellFormed(1)
    /\ event[2].eventName = EvPut

(* ------------------------------------------------------------------ *)
(* C15                                                                 *)
(* ------------------------------------------------------------------ *)

\* The stages of an invocation after connect_to_sftp has returned.
AfterConnect ==
    {"chdir", "iterate", "transfer", "download", "archive", "delete", "returned"}

\* C15: an invocation connects at most once, and once it is past
\* connect_to_sftp it has connected exactly once, successfully; s3_files
\* consumes no record before that; every warning and every call made for a
\* record comes after the connection and before its close, while the one
\* transport is open; the transport is closed at most once, as the last
\* thing the invocation does; and an invocation that returns, whatever the
\* batch (empty, or without an accepted record), has opened one connection
\* and closed it once.
C15_OneSessionPerInvocation ==
    LET connects == CallsFor("connect", 0)
        closes == CallsFor("close", 0)
    IN  /\ Cardinality(connects) <= 1
        /\ Cardinality(closes) <= 1
        /\ \A k \in closes : k = Len(calls)
        /\ (pc \in AfterConnect \/ idx > 0) =>
              \E c \in connects :
                  /\ calls[c].res = "ok"
                  /\ \A k \in DOMAIN calls : calls[k].rec > 0 => c < k
        /\ pc \in {"iterate", "transfer", "download", "archive", "delete"} =>
              transport = "open" /\ closes = {}
        /\ pc = "returned" =>
              /\ Cardinality(connects) = 1
              /\ Cardinality(closes) = 1
              /\ transport = "closed"

\* An invocation of the empty batch has returned after one connection and
\* one close.
C15_Witness ==
    /\ pc = "returned"
    /\ event = <<>>
    /\ N("connect", 0) = 1
    /\ N("close", 0) = 1
    /\ Len(calls) = 2

(* ------------------------------------------------------------------ *)
(* C16                                                                 *)
(* ------------------------------------------------------------------ *)

\* Position k holds the first malformed record of the batch.
FirstMalformed(k) ==
    /\ k \in 1..Len(event)
    /\ ~WellFormed(k)
    /\ \A j \in 1..(k - 1) : WellFormed(j)

\* Every call of the chain was made once for record i and none raised.
ChainDone(i) ==
    \A op \in ObjectOps :
        /\ N(op, i) = 1
        /\ \A c \in CallsFor(op, i) : calls[c].res = "ok"

\* C16: the event names are validated one record at a time, as the loop
\* reaches them. When the invocation fails on the first malformed record of
\* the batch, at position k, s3_files has consumed exactly k records, and
\* every accepted record before k has had its transfer, its marker write and
\* its deletion attempt, once each; where none of them raised, the remote
\* file and the marker exist and the source object is gone: the failure
\* undoes nothing.
C16_EarlierRecordsDoneBeforeMalformed ==
    (pc = "raised" /\ exc.at = "s3_files") =>
        \E k \in 1..Len(event) :
            /\ FirstMalformed(k)
            /\ idx = k
            /\ \A i \in 1..(k - 1) :
                  Accepted(i) =>
                      /\ \A op \in ObjectOps : N(op, i) = 1
                      /\ ChainDone(i) =>
                            /\ Resolved(i) \in DOMAIN remote
                            /\ <<event[i].bucket_name, ArchiveKey(Resolved(i))>>
                                  \in DOMAIN s3
                            /\ <<event[i].bucket_name, event[i].key>>
                                  \notin DOMAIN s3

\* The second record of a batch is malformed and the invocation failed on
\* it after the first record went through its whole chain without a fault.
C16_Witness ==
    /\ pc = "raised"
    /\ exc.at = "s3_files"
    /\ FirstMalformed(2)
    /\ Accepted(1)
    /\ ChainDone(1)

(* ------------------------------------------------------------------ *)
(* C17                                                                 *)
(* ------------------------------------------------------------------ *)

\* The read of record i raised a fault that was recorded.
ReadFailed(i) ==
    \E d \in CallsFor("download", i) : calls[d].res = "BotoCoreError"

ReturnedWithoutFault ==
    /\ pc = "returned"
    /\ \A k \in DOMAIN calls : calls[k].res = "ok"

\* C18: at the end of an invocation in which no fault occurred, the content
\* of every source object the invocation deleted is the content of some
\* remote file.
C18_DeletedContentIsRemote ==
    ReturnedWithoutFault =>
        \A k \in DOMAIN calls :
            calls[k].op = "delete" =>
                \E n \in DOMAIN remote : remote[n] = InitialBody(calls[k].name)

(* ------------------------------------------------------------------ *)
(* sftp_filename on its own: the filename specification                *)
(* ------------------------------------------------------------------ *)

KeyAlphabet == {"_", "0", "a"}

\* The object keys of the filename specification.
KeyStrings == UNION { [1..n -> KeyAlphabet] : n \in 0..MaxKeyLen }

InitName ==
    /\ os_environ \in { Environ({"SSH_HOST", "SSH_USERNAME", "SSH_PASSWORD"}, mask) :
                            mask \in {None, FullMask} }
    /\ event = <<>>
    /\ s3 = <<>>
    /\ remote = <<>>
    /\ pc = "name"
    /\ runs = 0
    /\ transport = "none"
    /\ cwd = <<>>
    /\ idx = 0
    /\ s3_file \in [bucket_name : Buckets, key : KeyStrings]
    /\ filename = <<>>
    /\ contents = <<>>
    /\ calls = <<>>
    /\ exc = NoExc
    /\ faults = 0

\* Line 99: filename = sftp_filename(SSH_FILENAME, s3_file).
ResolveName ==
    /\ pc = "name"
    /\ filename' = sftp_filename(SSH_FILENAME, s3_file)
    /\ pc' = "named"
    /\ UNCHANGED <<os_environ, event, s3, remote, runs, transport, cwd, idx,
                   s3_file, contents, calls, exc, faults>>

NextName == ResolveName

SpecName == InitName /\ [][NextName]_vars

(* ------------------------------------------------------------------ *)
(* C10                                                                 *)
(* ------------------------------------------------------------------ *)

\* The positions at which "_000" starts in s. Two occurrences never overlap:
\* "_" is only the first character of "_000".
Occurrences(s) ==
    { q \in 1..(Len(s) - 3) : SubSeq(s, q, q + 3) = Suffix000 }

\* The characters of s at the positions P, in order.
Pick(s, P) ==
    [j \in 1..Cardinality(P) |->
        s[CHOOSE p \in P : Cardinality({x \in P : x < p}) = j - 1]]

\* s without the characters of the occurrences that start at the positions Q.
Without(s, Q) ==
    Pick(s, { p \in 1..Len(s) : ~\E q \in Q : q <= p /\ p <= q + 3 })

\* s without every occurrence of "_000".
WithoutAll(s) == Without(s, Occurrences(s))

\* s without its first occurrence of "_000".
WithoutFirst(s) ==
    IF Occurrences(s) = {} THEN s
    ELSE Without(s, { CHOOSE q \in Occurrences(s) :
                          \A r \in Occurrences(s) : q <= r })

\* The name the mask gives when keyPart stands for the key.
Named(keyPart) ==
    IF SSH_FILENAME = FullMask
    THEN s3_file.bucket_name \o <<"-">> \o keyPart \o <<"-">> \o Today
    ELSE <<"d", "a", "t", "a", "_">> \o Today

\* C10 as amended: sftp_filename substitutes bucket, key and current date
\* into the mask after removing every occurrence of "_000" from the key, not
\* only the first; the example of the claim (one occurrence) comes out as
\* stated.
C10_EveryOccurrenceRemoved ==
    /\ pc = "named" => filename = Named(WithoutAll(s3_file.key))
    /\ sftp_filename(FullMask,
                     [bucket_name |-> <<"b">>,
                      key |-> <<"p", "a", "r", "t", "_", "0", "0", "0", ".", "c", "s", "v">>])
          = <<"b", "-", "p", "a", "r", "t", ".", "c", "s", "v", "-",
              "2", "0", "2", "4", "-", "0", "1", "-", "0", "1">>

\* A key with two occurrences of "_000" has been resolved under the mask
\* that holds {key}.
C10_Witness ==
    /\ pc = "named"
    /\ SSH_FILENAME = FullMask
    /\ Cardinality(Occurrences(s3_file.key)) >= 2

\* C10 as stated: only the first occurrence of "_000" is removed from the
\* key, later occurrences are kept.
C10_OnlyFirstOccurrenceRemoved ==
    pc = "named" => filename = Named(WithoutFirst(s3_file.key))

=============================================================================
